---- MODULE Spec2Model ----
(***************************************************************************)
(* Model of src/native/window-overlay.cc: the two functions the addon      *)
(* exports, SetWindowCollectionBehavior and GetNSWindowFromHandle, run     *)
(* against the AppKit window set of the running application.               *)
(*                                                                         *)
(* Machine integers are kept at their real width.  A 64-bit value (an      *)
(* NSInteger window number, an NSUInteger collection behavior, the integer *)
(* part of a JavaScript number) is a tuple of four 16-bit limbs, least     *)
(* significant first, in two's complement; a uint32_t is the tuple of the  *)
(* two low limbs.                                                          *)
(***************************************************************************)
EXTENDS Integers, Sequences, FiniteSets, TLC

\* Most windows the application has at one time.
MaxWindows == 2

----------------------------------------------------------------------------
(* Machine integers *)

LimbBase == 2 ^ 16
LimbMax == LimbBase - 1

\* The 64-bit two's complement representation of a small integer n.
I64(n) ==
    IF n >= 0 THEN <<n, 0, 0, 0>> ELSE <<LimbBase + n, LimbMax, LimbMax, LimbMax>>

\* 2^32 + n, for a small non-negative n.
Above32(n) == <<n, 0, 1, 0>>

\* 2^32 - 1, the largest uint32_t, as a 64-bit value.
UInt32Max == <<LimbMax, LimbMax, 0, 0>>

\* The low 32 bits of a 64-bit value: the conversion to uint32_t.
Low32(v) == <<v[1], v[2]>>

\* uint32_t widened to a 64-bit integer: the integer promotion in
\* `[window windowNumber] == windowId`, the NSInteger parameter of
\* windowWithWindowNumber: and the assignment to `unsigned long behavior`.
ZeroExtend(u) == <<u[1], u[2], 0, 0>>

\* A window number the window server assigned: strictly positive.  AppKit
\* reports a number equal to or less than 0 for a window without a window
\* device.
HasDevice(num) == num[4] < LimbBase \div 2 /\ num # I64(0)

----------------------------------------------------------------------------
(* JavaScript values handed to the addon *)

JSNumber(v) == [t |-> "number", v |-> v, frac |-> FALSE, len |-> 0, ptr |-> 0]
\* A number with a fractional part whose truncation toward zero is v.
JSFraction(v) == [t |-> "number", v |-> v, frac |-> TRUE, len |-> 0, ptr |-> 0]
JSNaN == [t |-> "nan", v |-> I64(0), frac |-> FALSE, len |-> 0, ptr |-> 0]
JSString == [t |-> "string", v |-> I64(0), frac |-> FALSE, len |-> 0, ptr |-> 0]
JSUndefined == [t |-> "undefined", v |-> I64(0), frac |-> FALSE, len |-> 0, ptr |-> 0]
\* A Buffer of len bytes; when it is pointer sized, ptr is the NSWindow* it
\* holds: 0 for nil, i for the address of the i-th window object.
JSBuffer(len, ptr) == [t |-> "buffer", v |-> I64(0), frac |-> FALSE, len |-> len, ptr |-> ptr]

\* sizeof(NSWindow*)
PointerSize == 8

\* info[i]: an index past the supplied arguments reads undefined.
Arg(info, i) == IF i <= Len(info) THEN info[i] ELSE JSUndefined

\* Napi::Number::Uint32Value(): napi_get_value_uint32 fails with
\* napi_number_expected on a value that is not a number; a number converts
\* as ToUint32 does (NaN and infinities to 0, otherwise truncate toward zero
\* and keep the low 32 bits).  On failure the wrapper throws; built without
\* C++ exceptions it leaves the exception pending and returns 0.
Uint32Value(a) ==
    CASE a.t = "number" -> [ok |-> TRUE, val |-> Low32(a.v)]
      [] a.t = "nan" -> [ok |-> TRUE, val |-> Low32(I64(0))]
      [] OTHER -> [ok |-> FALSE, val |-> Low32(I64(0))]

\* Napi::Number::New(env, [window windowNumber]): NSInteger to double, exact
\* below 2^53.
NumberNew(num) == JSNumber(num)

----------------------------------------------------------------------------
(* Outcomes of a call, as the JavaScript caller sees them *)

Outcome(kind, msg, num) == [kind |-> kind, msg |-> msg, num |-> num]
RetTrue == Outcome("true", "", <<>>)
RetFalse == Outcome("false", "", <<>>)
RetNull == Outcome("null", "", <<>>)
RetNumber(num) == Outcome("number", "", NumberNew(num).v)
Thrown(kind, msg) == Outcome(kind, msg, <<>>)
Crash == Outcome("crash", "", <<>>)
\* No call has been made.
NoOutcome == Outcome("none", "", <<>>)

ArgCountMessage == "Expected 2 arguments: windowId and behavior"
NumberExpectedMessage == "A number was expected"
BufferExpectedMessage == "Invalid argument"

----------------------------------------------------------------------------
(* The platform's windows *)

\* One NSWindow of the application: its windowNumber, its collectionBehavior
\* and whether [NSApp windows] enumerates it.
Window(num, flags, listed) == [num |-> num, flags |-> flags, listed |-> listed]

\* The existing windows, in the platform's enumeration order.
\* cppExceptions: whether the addon was built with C++ exceptions
\* (NAPI_CPP_EXCEPTIONS) or without (NAPI_DISABLE_CPP_EXCEPTIONS).
\* last: the most recent call and what it did, kept until the window set
\* changes.
VARIABLES wins, cppExceptions, last

vars == <<wins, cppExceptions, last>>

\* The window loop as it would be with the window number cast to uint32_t
\* before the comparison.
ScanWindowsTruncating(windows, windowId) ==
    LET hits == {i \in 1..Len(windows) :
                    windows[i].listed /\ Low32(windows[i].num) = windowId}
    IN IF hits = {} THEN 0 ELSE CHOOSE i \in hits : \A j \in hits : i <= j

\* The window loop: the first enumerated window whose number equals
\* windowId, as a position in the window sequence; 0 when there is none.
ScanWindows(windows, windowId) ==
    LET hits == {i \in 1..Len(windows) :
                    windows[i].listed /\ windows[i].num = ZeroExtend(windowId)}
    IN IF hits = {} THEN 0 ELSE CHOOSE i \in hits : \A j \in hits : i <= j

\* [NSApp windowWithWindowNumber:windowId]: the window the window server
\* knows under that number, enumerated or not; 0 for nil.
WindowWithWindowNumber(windows, windowId) ==
    LET hits == {i \in 1..Len(windows) :
                    HasDevice(windows[i].num) /\ windows[i].num = ZeroExtend(windowId)}
    IN IF hits = {} THEN 0 ELSE CHOOSE i \in hits : TRUE

\* The lookup with the two strategies in the other order.
ResolveDirectFirst(windows, windowId) ==
    LET d == WindowWithWindowNumber(windows, windowId)
    IN IF d # 0
       THEN [target |-> d, path |-> <<"direct">>]
       ELSE [target |-> ScanWindows(windows, windowId),
             path |-> <<"direct", "scan">>]

\* The lookup of the handler: the scan, then the direct lookup when the scan
\* found nothing.  path lists the strategies consulted, in order.
Resolve(windows, windowId) ==
    LET s == ScanWindows(windows, windowId)
    IN IF s # 0
       THEN [target |-> s, path |-> <<"scan">>]
       ELSE [target |-> WindowWithWindowNumber(windows, windowId),
             path |-> <<"scan", "direct">>]

\* The mutation as it would be without the return inside the loop: every
\* window carrying the number of the i-th is changed.
SetCollectionBehaviorOnAll(windows, i, behavior) ==
    [j \in 1..Len(windows) |->
        IF windows[j].num = windows[i].num
        THEN [windows[j] EXCEPT !.flags = ZeroExtend(behavior)]
        ELSE windows[j]]

\* The mutation as a toggle: a behavior that is already set is cleared.
SetCollectionBehaviorToggle(windows, i, behavior) ==
    [windows EXCEPT ![i].flags =
        IF @ = ZeroExtend(behavior) THEN I64(0) ELSE ZeroExtend(behavior)]

\* [window setCollectionBehavior:behavior]
SetCollectionBehavior(windows, i, behavior) ==
    [windows EXCEPT ![i].flags = ZeroExtend(behavior)]

\* The argument check as it would be with the wrong count.
TooFewArgumentsOffByOne(info) == Len(info) < 1

\* info.Length() < 2
TooFewArguments(info) == Len(info) < 2

SetResult(outcome, windows, path, target, windowId) ==
    [outcome |-> outcome, windows |-> windows, path |-> path,
     target |-> target, windowId |-> windowId]

\* The exported setWindowCollectionBehavior.  exc: built with C++
\* exceptions.  Without them a failed Uint32Value leaves a JavaScript
\* exception pending and the function runs on with 0; the caller then sees
\* the exception instead of the returned value.
SetWindowCollectionBehavior(info, windows, exc) ==
    IF TooFewArguments(info)
    THEN SetResult(Thrown("TypeError", ArgCountMessage), windows, <<>>, 0, <<>>)
    ELSE
      LET id == Uint32Value(Arg(info, 1))
          bh == Uint32Value(Arg(info, 2))
          pending == ~id.ok \/ ~bh.ok
          Seen(ret) == IF pending THEN Thrown("TypeError", NumberExpectedMessage) ELSE ret
          r == Resolve(windows, id.val)
      IN IF exc /\ pending
         THEN SetResult(Thrown("TypeError", NumberExpectedMessage), windows, <<>>, 0, <<>>)
         ELSE IF r.target # 0
         THEN SetResult(Seen(RetTrue), SetCollectionBehavior(windows, r.target, bh.val),
                        r.path, r.target, id.val)
         ELSE SetResult(Seen(RetFalse), windows, r.path, 0, id.val)

\* What dereferencing the data pointer of a zero-length Buffer can give:
\* a fault, or whatever bytes lie there read as an NSWindow* (nil, or a
\* pointer to one of the windows; anything else faults when messaged).
EmptyBufferReads(windows) ==
    {Crash, RetNull} \cup {RetNumber(windows[i].num) : i \in 1..Len(windows)}

\* The call dereferences the data pointer of a Buffer too short to hold a
\* pointer.
ReadsOutside(info) ==
    Len(info) >= 1 /\ Arg(info, 1).t = "buffer" /\ Arg(info, 1).len < PointerSize

\* The exported getNSWindowFromHandle.  exc as above; ub is the outcome
\* picked when the code reads outside the buffer.
GetNSWindowFromHandle(info, windows, exc, ub) ==
    IF Len(info) < 1 THEN RetNull
    ELSE LET a == Arg(info, 1)
         IN IF a.t # "buffer"
            THEN IF exc THEN Thrown("Error", BufferExpectedMessage) ELSE Crash
            ELSE IF a.len < PointerSize THEN ub
            ELSE IF a.ptr = 0 THEN RetNull
            ELSE RetNumber(windows[a.ptr].num)

----------------------------------------------------------------------------
(* Inputs *)

\* Window numbers: two without a window device, two assigned by the window
\* server.
WindowNumbers == {I64(-1), I64(0), I64(1), I64(2)}

\* The collectionBehavior a window is created with.
InitialFlags == {I64(1)}

\* First arguments of setWindowCollectionBehavior: -1, 0, 1, 2^32 - 1,
\* 2^32 + 1, 1.5 and a string.
IdArgs ==
    {JSNumber(I64(-1)), JSNumber(I64(0)), JSNumber(I64(1)),
     JSNumber(UInt32Max), JSNumber(Above32(1)), JSFraction(I64(1)), JSString}

\* Second arguments: 1, 2 and a string.
MaskArgs == {JSNumber(I64(1)), JSNumber(I64(2)), JSString}

SetArgLists ==
    {<<>>} \cup {<<a>> : a \in IdArgs} \cup {<<a, m>> : a \in IdArgs, m \in MaskArgs}

\* Argument lists of getNSWindowFromHandle: none, a string, an empty
\* Buffer, a Buffer holding nil, a Buffer holding a window of the application.
GetArgLists(windows) ==
    {<<>>, <<JSString>>, <<JSBuffer(0, 0)>>, <<JSBuffer(PointerSize, 0)>>}
      \cup {<<JSBuffer(PointerSize, i)>> : i \in 1..Len(windows)}

\* The argument is of the declared parameter type uint32.
IsUint32(a) == a.t = "number" /\ ~a.frac /\ a.v[3] = 0 /\ a.v[4] = 0

----------------------------------------------------------------------------
(* The state machine *)

Idle ==
    [op |-> "none", args |-> <<>>, outcome |-> NoOutcome, before |-> <<>>,
     path |-> <<>>, target |-> 0, windowId |-> <<>>, fromWin |-> 0,
     rep |-> FALSE, prevOutcome |-> NoOutcome, afterClose |-> FALSE]

Init ==
    /\ wins = <<>>
    /\ cppExceptions \in BOOLEAN
    /\ last = Idle

\* The host runtime creates a window.  The window server never gives two
\* windows the same number; a window [NSApp windows] leaves out is known
\* only through its window-server number.
OpenWindow(num, flags, listed) ==
    /\ Len(wins) < MaxWindows
    /\ HasDevice(num) => \A i \in 1..Len(wins) : wins[i].num # num
    /\ ~listed => HasDevice(num)
    /\ wins' = Append(wins, Window(num, flags, listed))
    /\ last' = Idle
    /\ UNCHANGED cppExceptions

\* The i-th window closes.  When the call just made resolved to it, its
\* identifier is remembered as one that used to resolve.
CloseWindow(i) ==
    /\ i \in 1..Len(wins)
    /\ wins' = [j \in 1..(Len(wins) - 1) |-> IF j < i THEN wins[j] ELSE wins[j + 1]]
    /\ last' = IF last.op = "set" /\ last.outcome = RetTrue /\ last.target = i
               THEN [Idle EXCEPT !.op = "closed", !.args = <<last.args[1]>>]
               ELSE Idle
    /\ UNCHANGED cppExceptions

\* JavaScript calls setWindowCollectionBehavior(...info).
CallSet(info) ==
    LET r == SetWindowCollectionBehavior(info, wins, cppExceptions)
        rep == last.op = "set" /\ last.args = info
    IN /\ wins' = r.windows
       /\ last' =
            [op |-> "set", args |-> info, outcome |-> r.outcome, before |-> wins,
             path |-> r.path, target |-> r.target, windowId |-> r.windowId,
             fromWin |-> IF /\ last.op = "get"
                            /\ last.fromWin # 0
                            /\ Len(info) >= 1
                            /\ info[1] = NumberNew(last.outcome.num)
                         THEN last.fromWin ELSE 0,
             rep |-> rep,
             prevOutcome |-> IF rep THEN last.outcome ELSE NoOutcome,
             afterClose |-> /\ last.op = "closed"
                            /\ Len(info) >= 1
                            /\ info[1] = last.args[1]]
       /\ UNCHANGED cppExceptions

\* JavaScript calls getNSWindowFromHandle(...info).  A read outside the
\* buffer has any of the outcomes of EmptyBufferReads.
CallGet(info) ==
    \E ub \in IF ReadsOutside(info) THEN EmptyBufferReads(wins) ELSE {NoOutcome} :
       LET o == GetNSWindowFromHandle(info, wins, cppExceptions, ub)
           a == Arg(info, 1)
       IN /\ last' =
               [Idle EXCEPT !.op = "get", !.args = info, !.outcome = o, !.before = wins,
                            !.fromWin = IF a.t = "buffer" /\ a.len >= PointerSize
                                        THEN a.ptr ELSE 0]
          /\ UNCHANGED <<wins, cppExceptions>>

Next ==
    \/ \E num \in WindowNumbers, flags \in InitialFlags, listed \in BOOLEAN :
          OpenWindow(num, flags, listed)
    \/ \E i \in 1..Len(wins) : CloseWindow(i)
    \/ \E info \in SetArgLists : CallSet(info)
    \/ \E info \in GetArgLists(wins) : CallGet(info)

Spec == Init /\ [][Next]_vars

----------------------------------------------------------------------------
(* Claims.  Each is stated over `last`, the record of the most recent call: *)
(* its arguments, the windows before it (last.before), the windows after   *)
(* it (wins) and what the caller saw (last.outcome).  Where a claim speaks *)
(* of an identifier or a mask without saying otherwise, the argument is of *)
(* the declared type uint32.                                               *)

\* C1: for every window W of the application and every mask, the call
\* setWindowCollectionBehavior(W.number, mask) returns true and leaves W's
\* flags equal to mask.
C1_EveryWindowResolvesByNumber ==
    (last.op = "set" /\ Len(last.args) = 2 /\ IsUint32(last.args[2]))
    => \A i \in 1..Len(last.before) :
          last.args[1] = NumberNew(last.before[i].num)
          => last.outcome = RetTrue /\ wins[i].flags = last.args[2].v

\* C2: a call whose identifier is the number of no window returns false,
\* does not throw, and leaves every window as it was.
C2_UnresolvedReturnsFalse ==
    (/\ last.op = "set" /\ Len(last.args) = 2
     /\ IsUint32(last.args[1]) /\ IsUint32(last.args[2])
     /\ \A i \in 1..Len(last.before) : last.before[i].num # last.args[1].v)
    => last.outcome = RetFalse /\ wins = last.before

C2_Witness ==
    /\ last.op = "set" /\ Len(last.args) = 2
    /\ IsUint32(last.args[1]) /\ IsUint32(last.args[2])
    /\ Len(last.before) >= 1
    /\ \A i \in 1..Len(last.before) : last.before[i].num # last.args[1].v
    /\ last.outcome = RetFalse

\* C3: a call with fewer than two arguments throws the argument-count error
\* before any lookup, and changes no window.
C3_TooFewArgumentsThrows ==
    (last.op = "set" /\ Len(last.args) < 2)
    => /\ last.outcome = Thrown("TypeError", ArgCountMessage)
       /\ last.path = <<>>
       /\ wins = last.before

\* One argument, the number of an existing window: the lookup would have hit.
C3_Witness ==
    /\ last.op = "set" /\ Len(last.args) = 1
    /\ \E i \in 1..Len(last.before) :
          last.before[i].listed /\ last.args[1] = NumberNew(last.before[i].num)
    /\ last.outcome.kind = "TypeError"

\* C4: a call changes at most one window and nothing but its flags; after a
\* call that returned true, every window whose number differs from the
\* identifier, and every window enumerated after another with the same
\* number, is as it was.
C4_OnlyResolvedWindowChanges ==
    last.op = "set"
    => /\ Len(wins) = Len(last.before)
       /\ Cardinality({i \in 1..Len(wins) : wins[i] # last.before[i]}) <= 1
       /\ \A i \in 1..Len(wins) :
             /\ wins[i].num = last.before[i].num
             /\ wins[i].listed = last.before[i].listed
       /\ (last.outcome = RetTrue /\ IsUint32(last.args[1]))
          => \A i \in 1..Len(wins) :
                (\/ last.before[i].num # last.args[1].v
                 \/ \E j \in 1..(i - 1) :
                       last.before[j].listed /\ last.before[j].num = last.before[i].num)
                => wins[i] = last.before[i]

\* Two windows share the number; the first was changed, the second was not.
C4_Witness ==
    /\ last.op = "set" /\ last.outcome = RetTrue
    /\ Len(wins) = 2
    /\ last.before[1].num = last.before[2].num
    /\ wins[1].flags # last.before[1].flags
    /\ wins[2] = last.before[2]

\* C5: a call whose identifier is not exactly the number of an existing
\* window (zero, out of range, fractional, not a number) returns false and
\* raises no error.
C5_NonNumbersOfWindowsAreNotFound ==
    (/\ last.op = "set" /\ Len(last.args) = 2 /\ IsUint32(last.args[2])
     /\ \A i \in 1..Len(last.before) :
           ~(/\ last.args[1].t = "number" /\ ~last.args[1].frac
             /\ last.args[1].v = last.before[i].num))
    => last.outcome = RetFalse

\* C6: getNSWindowFromHandle returns null for no argument, for an empty
\* buffer and for a buffer holding a null pointer.
C6_AbsentEmptyOrNullGivesNull ==
    (/\ last.op = "get"
     /\ \/ Len(last.args) = 0
        \/ /\ last.args[1].t = "buffer"
           /\ (last.args[1].len = 0 \/ last.args[1].ptr = 0))
    => last.outcome = RetNull

\* C7: the number decoded from a buffer wrapping window W, passed to
\* setWindowCollectionBehavior, resolves to W.
C7_DecodedNumberRoundTrips ==
    (/\ last.op = "set" /\ last.fromWin # 0
     /\ Len(last.args) = 2 /\ IsUint32(last.args[2]))
    => last.outcome = RetTrue /\ last.target = last.fromWin

\* C8: getNSWindowFromHandle never throws: whatever the arguments, the
\* caller gets a number or null.
C8_GetNeverThrows ==
    last.op = "get" => last.outcome.kind \in {"number", "null"}

\* C9: the scan runs first and its first match is the window changed, the
\* direct lookup not being consulted; the direct lookup runs only after a
\* scan without a match and its window is changed with the same mask; the
\* call returns false only when both found nothing.
C9_ScanThenDirectLookup ==
    (/\ last.op = "set" /\ Len(last.args) = 2
     /\ IsUint32(last.args[1]) /\ IsUint32(last.args[2]))
    => LET b == last.before
           scanHits == {i \in 1..Len(b) : b[i].listed /\ b[i].num = last.args[1].v}
           directHits == {i \in 1..Len(b) : HasDevice(b[i].num) /\ b[i].num = last.args[1].v}
       IN /\ scanHits # {}
             => /\ last.path = <<"scan">>
                /\ last.target \in scanHits
                /\ \A j \in scanHits : last.target <= j
          /\ scanHits = {}
             => /\ last.path = <<"scan", "direct">>
                /\ directHits # {} => last.target \in directHits
                /\ directHits = {} => last.target = 0
          /\ last.target # 0
             => /\ last.outcome = RetTrue
                /\ wins = [b EXCEPT ![last.target].flags = last.args[2].v]
          /\ last.target = 0 => last.outcome = RetFalse /\ wins = b

\* The scan found nothing and the direct lookup found the window.
C9_Witness ==
    /\ last.op = "set"
    /\ last.path = <<"scan", "direct">>
    /\ last.target # 0
    /\ last.outcome = RetTrue
    /\ wins[last.target].flags # last.before[last.target].flags

\* C10: nothing is kept between calls.  A call made right after the window
\* an equal call resolved to has closed returns false when no window has
\* that number any more, and a call repeated with no change to the window
\* set in between returns what the first returned and changes nothing.
C10_NoStateBetweenCalls ==
    /\ (/\ last.op = "set" /\ last.afterClose
        /\ Len(last.args) = 2 /\ IsUint32(last.args[1]) /\ IsUint32(last.args[2])
        /\ \A i \in 1..Len(last.before) : last.before[i].num # last.args[1].v)
       => last.outcome = RetFalse /\ wins = last.before
    /\ (last.op = "set" /\ last.rep)
       => last.outcome = last.prevOutcome /\ wins = last.before

\* The identifier resolved, its window closed, and the same call now fails.
C10_Witness ==
    /\ last.op = "set" /\ last.afterClose
    /\ Len(last.args) = 2 /\ IsUint32(last.args[1]) /\ IsUint32(last.args[2])
    /\ Len(last.before) >= 1
    /\ last.outcome = RetFalse

====
